---- MODULE Spec2Model ----
(***************************************************************************)
(* Model of src/src/main.ts: class Main, the orchestrator that reads,      *)
(* formats, locks, writes, unlocks and activates every include of every    *)
(* object handed to processObjects.  Every remote call (an await on the    *)
(* ADT client) either returns a value drawn from a small set or raises.    *)
(* Main.list, which reads the objects from a manifest file or asks the     *)
(* discovery query for them, is a second specification, SpecList.          *)
(***************************************************************************)
EXTENDS Integers, Sequences, FiniteSets, TLC

(* ------------------------------ bounds -------------------------------- *)
\* objects handed to one processObjects call
MaxObjects == 2
\* includes the expander returns for one object
MaxIncludes == 2
\* distinct includes of the remote repository
NumIncludes == 2
\* source texts 1..MaxContent of an include
MaxContent == 3
\* records in the "inactive" list of an activation result
MaxInactive == 1
\* lines of a manifest file
MaxLines == 3

(* ------------------------------ values -------------------------------- *)
\* JavaScript undefined, for a string-valued field or parameter
Undefined == "undefined"

\* JavaScript truthiness of an optional string: undefined and "" are falsy
Truthy(s) == s # Undefined /\ s # ""

\* JavaScript undefined, for an object-valued field or a text (currentObject,
\* currentInclude, source, formatted, the object of an inactive record)
Nothing == 0

Names == 1..NumIncludes
Content == 1..MaxContent

\* AbapInclude.type: "PROG/I" is the program-with-includes variant
IncludeType(n) == IF n % 2 = 1 THEN "PROG/I" ELSE "CLAS/I"

\* every list the expander can return for an object
IncludeLists == UNION {[1..k -> Names] : k \in 0..MaxIncludes}

\* the change-tracking ids (transports) that exist
TransportIds == {"T1", "T2"}

\* Options = { test, transport? }
OptionSet == [test : BOOLEAN, transport : {Undefined, ""} \cup {"T1"}]

\* AdtLock, the fields main.ts reads
AdtLocks ==
  [LOCK_HANDLE : {"", "H"}, IS_LOCAL : BOOLEAN, CORRNR : {""} \cup TransportIds]
NoLock == [LOCK_HANDLE |-> Undefined, IS_LOCAL |-> FALSE, CORRNR |-> Undefined]

\* An error value: its type and its message, a tuple of characters or words
NoError == [type |-> "none", message |-> <<>>]
Err(type, message) == [type |-> type, message |-> message]
CLIError(message) == Err("CLIError", message)

\* the refusals client.lock can raise
LockMessages ==
  { <<"i","s"," ","L","o","c","k","e","d","!">>,
    <<"l","o","c","k","e","d">>,
    <<"l","o","c","k"," ","e","d">>,
    <<>> }
LockErrors ==
  [type : {"ExceptionResourceNoAccess", "ExceptionResourceLockedByAnotherUser"},
   message : LockMessages]

\* String.prototype.toLowerCase on one character
LowerChar(c) ==
  CASE c = "L" -> "l" [] c = "O" -> "o" [] c = "C" -> "c" [] c = "K" -> "k"
    [] c = "E" -> "e" [] c = "D" -> "d" [] OTHER -> c

\* message.match(/locked/i): the word occurs somewhere, in any case
MatchLocked(msg) ==
  \E i \in 1..Len(msg) :
    /\ i + 5 <= Len(msg)
    /\ [k \in 1..6 |-> LowerChar(msg[i + k - 1])] = <<"l","o","c","k","e","d">>

\* ActivationResult = { success, messages, inactive }; an inactive record
\* carries an object (1..MaxInactive) or none (a bare transport record)
InactiveRecords == [object : {Nothing} \cup 1..MaxInactive]
\* the records that carry an object come first, in increasing order
InactiveOrdered(l) ==
  \A i, j \in 1..Len(l) :
    i < j => l[i].object # Nothing
             /\ (l[j].object = Nothing \/ l[j].object > l[i].object)
InactiveLists ==
  {l \in UNION {[1..n -> InactiveRecords] : n \in 0..MaxInactive} :
     InactiveOrdered(l)}
ShortText == <<"syntax error">>
ActivationResults ==
  [success : BOOLEAN,
   messages : {<<>>, <<[shortText |-> ShortText]>>},
   inactive : InactiveLists]
NoResult == [success |-> TRUE, messages |-> <<>>, inactive |-> <<>>]

RECURSIVE FilterObjects(_)
\* inactiveObjectsInResults: the objects of the records that carry one
FilterObjects(recs) ==
  IF recs = <<>> THEN <<>>
  ELSE IF Head(recs).object # Nothing
       THEN <<Head(recs).object>> \o FilterObjects(Tail(recs))
       ELSE FilterObjects(Tail(recs))
inactiveObjectsInResults(res) == FilterObjects(res.inactive)

\* the value of Main.abapLint that selects the built-in configuration
ABAPLINT_DEFAULT == ".abaplint"
AbapLintChoices == {Undefined, ABAPLINT_DEFAULT, "custom.json"}

(* --------------------------- pure functions --------------------------- *)
\* the external formatter: every pass brings a text one step closer to its
\* normal form 1, so a text c is stable after c - 1 passes
prettyPrinter(c) == IF c = 1 THEN 1 ELSE c - 1

\* mutant: the comparison never finds the text unchanged
unchangedNever(f, src) == FALSE
\* Main.processInclude, line 136: the formatted text equals the source
unchanged(f, src) == f = src

\* mutant: the dry-run flag is ignored
doWriteAlways(opts) == TRUE
\* Main.write, lines 103 and 113: the write and the activation are made
doWrite(opts) == ~opts.test

\* mutant: inactive objects are never followed up
hasInactiveNever(res) == FALSE
\* Main.activate, line 86: the result reports inactive objects
hasInactive(res) == Len(res.inactive) > 0

\* mutant: the message of the refusal is not looked at
tryLockCatchAnyMessage(e) ==
  IF e.type = "ExceptionResourceNoAccess" THEN "absent" ELSE "throw"
\* Main.tryLock, the catch clause: "absent" (return undefined) or "throw"
tryLockCatch(e) ==
  IF e.type = "ExceptionResourceNoAccess" /\ ~MatchLocked(e.message)
  THEN "absent" ELSE "throw"

\* mutant: the third test forgets that the lock must not be local
validateTransportAnyLocal(lk, transport) ==
  IF lk.IS_LOCAL /\ Truthy(transport)
  THEN CLIError(<<"is local, can't use transport">>)
  ELSE IF ~lk.IS_LOCAL /\ ~Truthy(transport)
  THEN CLIError(<<"requires a transport">>)
  ELSE IF transport # lk.CORRNR /\ Truthy(lk.CORRNR)
  THEN CLIError(<<"locked in transport, can't use">>)
  ELSE NoError
\* Main.validateTransport, line 60: a local object and a transport
isLocalWithTransport(lk, transport) == lk.IS_LOCAL /\ Truthy(transport)
\* Main.validateTransport, line 63: not local and no transport
requiresTransport(lk, transport) == ~lk.IS_LOCAL /\ ~Truthy(transport)
\* mutant: the third test forgets that the lock must not be local
lockedInOtherAnyLocal(lk, transport) ==
  transport # lk.CORRNR /\ Truthy(lk.CORRNR)
\* Main.validateTransport, line 70: locked in another transport
lockedInOther(lk, transport) ==
  transport # lk.CORRNR /\ ~lk.IS_LOCAL /\ Truthy(lk.CORRNR)

\* Main.validateTransport: the error cli.error raises, or NoError
validateTransport(lk, transport) ==
  IF isLocalWithTransport(lk, transport)
  THEN CLIError(<<"is local, can't use transport">>)
  ELSE IF requiresTransport(lk, transport)
  THEN CLIError(<<"requires a transport">>)
  ELSE IF lockedInOther(lk, transport)
  THEN CLIError(<<"locked in transport, can't use">>)
  ELSE NoError

\* Main.write, line 100: a lock without a handle is a failure to lock
checkHandle(lk) ==
  IF ~Truthy(lk.LOCK_HANDLE) THEN CLIError(<<"Failed to lock">>) ELSE NoError

\* mutant: a failed activation is not an error
activationErrorIgnored(res) == NoError
\* Main.write, lines 115-116: the error raised for a failed activation
activationError(res) ==
  IF res.success = FALSE
  THEN IF res.messages # <<>> /\ res.messages[1].shortText # <<>>
       THEN CLIError(res.messages[1].shortText)
       ELSE CLIError(<<"Failed to activate">>)
  ELSE NoError

(* ------------------------------ Main.list ----------------------------- *)
\* A line of text is a sequence of atoms: a run of letters, "/" or a blank.
\* The empty sequence is the empty string; it also stands for a field a row
\* does not have (undefined), which is falsy and unsupported like "".
Blank == " "
Slash == "/"

\* the object types lib/abap supports, written as lines of text
SupportedTypes == {<<"PROG", Slash, "P">>, <<"CLAS", Slash, "OC">>}
\* lib/abap supportedType
supportedType(type) == type \in SupportedTypes

\* the lines a manifest file is made of
HeaderLine == <<"TYPE", Blank, "NAME", Blank, "URL">>
GoodRow == <<"PROG", Slash, "P", Blank, "ZPROG", Blank, Slash, "zprog">>
ClassRow == <<"CLAS", Slash, "OC", Blank, "ZCL", Blank, Slash, "zcl">>
BadTypeRow == <<"TABL", Slash, "DT", Blank, "ZTAB", Blank, Slash, "ztab">>
NoUrlRow == <<"PROG", Slash, "P", Blank, "ZPROG">>
BlankRow == <<Blank>>
Lines == {<<>>, HeaderLine, GoodRow, ClassRow, BadTypeRow, NoUrlRow, BlankRow}
\* readFileSync(file).toString().split("\n"): at least one line
Manifests == UNION {[1..n -> Lines] : n \in 1..MaxLines}

\* the arguments of list
ListTypes == {"", "DEVC/K"}
ListNames == {"", "ZPACKAGE"}
ListFiles == {Undefined, "objects.txt"}

\* the errors of list: the text cli.error is given, the line and the file it
\* cites; NoLine when the text cites no line
NoLine == -1
ListErr(m, l, f) == [message |-> m, line |-> l, file |-> f]
NoListError == ListErr("none", NoLine, Undefined)

\* mutant: the usage test asks for both a name and a type
usageBothGiven(type, name, file) ==
  IF Truthy(name) /\ Truthy(type) /\ Truthy(file)
  THEN ListErr("Can't specify an object name or type and a list file",
               NoLine, Undefined)
  ELSE NoListError
\* Main.list, lines 185-188: a manifest excludes a name and a type
usageBoth(type, name, file) ==
  IF (Truthy(name) \/ Truthy(type)) /\ Truthy(file)
  THEN ListErr("Can't specify an object name or type and a list file",
               NoLine, Undefined)
  ELSE NoListError

\* Main.list, lines 214-215: without a manifest, name and type are required
usageMissing(type, name) ==
  IF ~Truthy(name) \/ ~Truthy(type)
  THEN ListErr("Object type and name required", NoLine, Undefined)
  ELSE NoListError

\* l.match(/\//)
MatchSlash(l) == \E k \in 1..Len(l) : l[k] = Slash

\* mutant: any line without a slash is taken for a header
isHeaderAnywhere(l, i) == ~MatchSlash(l)
\* Main.list, lines 191-193: i is the index of the line in the file, from 0
isHeader(l, i) == i = 0 /\ ~MatchSlash(l)

\* Main.list, line 197: the filter, from the line with index i - 1 on
RECURSIVE FilterLines(_, _)
FilterLines(m, i) ==
  IF i > Len(m) THEN <<>>
  ELSE (IF m[i] # <<>> /\ ~isHeader(m[i], i - 1) THEN <<m[i]>> ELSE <<>>)
       \o FilterLines(m, i + 1)

\* l.split(/\s+/): a run of blanks separates two fields
RECURSIVE SplitBlanks(_, _, _, _)
SplitBlanks(l, k, fields, inBlanks) ==
  IF k > Len(l) THEN fields
  ELSE IF l[k] = Blank
  THEN SplitBlanks(l, k + 1,
                   IF inBlanks THEN fields ELSE Append(fields, <<>>), TRUE)
  ELSE SplitBlanks(l, k + 1,
                   [fields EXCEPT ![Len(fields)] = Append(@, l[k])], FALSE)

\* Main.list, line 198: x.split(/\s+/, 3), at most three fields
split3(l) ==
  LET fields == SplitBlanks(l, 1, <<<<>>>>, FALSE)
  IN SubSeq(fields, 1, IF Len(fields) < 3 THEN Len(fields) ELSE 3)

\* Main.list, lines 199, 208: the descriptor of a row
descriptor(fields) ==
  [type |-> fields[1],
   name |-> IF Len(fields) >= 2 THEN fields[2] ELSE <<>>,
   url |-> IF Len(fields) >= 3 THEN fields[3] ELSE <<>>]

\* Main.list, lines 200-207: the error of the row with index i, from 0, of
\* the filtered lines
rowError(row, i, file) ==
  IF ~supportedType(row.type)
  THEN ListErr("Objects of type are not supportes near line", i, file)
  ELSE IF row.url = <<>>
  THEN ListErr("URL not specified for object", NoLine, file)
  ELSE NoListError

\* Main.list, lines 194-198: the rows of the manifest
manifestRows(m) ==
  [k \in 1..Len(FilterLines(m, 1)) |-> descriptor(split3(FilterLines(m, 1)[k]))]

\* Main.list, lines 199-209: the error of the first row that has one
manifestError(m, file) ==
  LET rows == manifestRows(m)
      bad == {k \in 1..Len(rows) : rowError(rows[k], k - 1, file) # NoListError}
  IN IF bad = {} THEN NoListError
     ELSE LET first == CHOOSE k \in bad : \A j \in bad : k <= j
          IN rowError(rows[first], first - 1, file)

\* what the discovery query of lib/abap returns
DiscoveryResults ==
  {<<>>, <<descriptor(split3(GoodRow))>>,
   <<descriptor(split3(GoodRow)), descriptor(split3(ClassRow))>>}

(* ------------------------------- state -------------------------------- *)
VARIABLES
  abapLint,   \* Main.abapLint
  stateful,   \* client.stateful
  status,     \* Main.status
  store,      \* remote: the source text of every include
  held,       \* remote: the includes whose lock this session holds
  pc,         \* position in processObjects
  objects,    \* processObjects: the objects argument
  options,    \* processObjects: the options argument
  oi,         \* index of the object of the outer loop
  includes,   \* the includes expand returned for the object
  ii,         \* index of the include of the inner loop
  source,     \* processInclude: source
  formatted,  \* processInclude: formatted
  lock,       \* processInclude: lock
  active,     \* activate/write: active
  inactives,  \* activate: inactives, the argument of the follow-up call
  lockError,  \* tryLock: the error client.lock raised
  error,      \* the error in flight
  result,     \* the error the caller of processObjects sees
  calls,      \* history: the calls made for the include in flight
  report,     \* history: what the catch clause logged
  summary,    \* history: the summaries stats() logged
  drops,      \* history: dropSession calls of this processObjects call
  lateCalls,  \* history: remote calls made after dropSession
  seen,       \* history: includes the expander returned so far
  entered,    \* history: includes for which write() was entered
  writes,     \* history: the includes setObjectSource has written
  listPc,     \* position in Main.list
  listArgs,   \* list: the arguments type, name and options.file
  manifest,   \* list: the lines readFileSync returned
  listed,     \* list: the objects returned
  listError,  \* list: the error raised
  queries     \* history: calls of the discovery query

\* the variables of Main.list
listVars == <<listPc, listArgs, manifest, listed, listError, queries>>
\* the variables of processObjects
mainVars == <<abapLint, stateful, status, store, held, pc, objects, options,
              oi, includes, ii, source, formatted, lock, active, inactives,
              lockError, error, result, calls, report, summary, drops,
              lateCalls, seen, entered, writes>>
vars == <<mainVars, listVars>>

\* the variables of one include's pipeline
locals == <<source, formatted, lock, active, inactives, lockError>>
\* the loop variables
loop == <<objects, options, oi, includes, ii>>
\* the histories a step without a remote call leaves alone
hist == <<report, summary, drops, seen, entered, writes>>

NoReport == [logged |-> FALSE, object |-> Nothing, include |-> Nothing]

Init ==
  /\ abapLint \in AbapLintChoices
  /\ stateful = "stateless"
  /\ status = [currentObject |-> Nothing, currentInclude |-> Nothing,
               processedObjects |-> 0, processedIncludes |-> 0,
               writtenIncludes |-> 0]
  /\ store \in [Names -> Content]
  /\ held = {}
  /\ pc = "idle"
  /\ objects = <<>>
  /\ options = [test |-> FALSE, transport |-> Undefined]
  /\ oi = 1
  /\ includes = <<>>
  /\ ii = 1
  /\ source = Nothing
  /\ formatted = Nothing
  /\ lock = NoLock
  /\ active = NoResult
  /\ inactives = <<>>
  /\ lockError = NoError
  /\ error = NoError
  /\ result = NoError
  /\ calls = <<>>
  /\ report = NoReport
  /\ summary = <<>>
  /\ drops = 0
  /\ lateCalls = 0
  /\ seen = 0
  /\ entered = 0
  /\ writes = <<>>
  /\ listPc = "idle"
  /\ listArgs = [type |-> "", name |-> "", file |-> Undefined]
  /\ manifest = <<>>
  /\ listed = <<>>
  /\ listError = NoListError
  /\ queries = 0

\* the include of the inner loop
Incl == includes[ii]

\* a remote call is made: it is logged for the include in flight
Call(op) ==
  /\ calls' = Append(calls, op)
  /\ lateCalls' = IF drops > 0 THEN lateCalls + 1 ELSE lateCalls

\* an error is raised inside the try block: control goes to the catch clause
Throw(e) ==
  /\ error' = e
  /\ pc' = "catch"

(* ---------------------------- processObjects -------------------------- *)
\* lines 155-158: the call, up to the start of the loop
ProcessObjects ==
  /\ pc = "idle"
  /\ \E n \in 0..MaxObjects, opts \in OptionSet :
       /\ objects' = [i \in 1..n |-> i]
       /\ options' = opts
  /\ stateful' = "stateful"
  /\ oi' = 1
  /\ pc' = "expand"
  /\ UNCHANGED <<listVars,
                 abapLint, status, store, held, includes, ii, locals, error,
                 result, calls, lateCalls, hist>>

\* lines 156-157: loadAbapLintConfig raises, before the session is touched
LoadConfigFails ==
  /\ pc = "idle"
  /\ Truthy(abapLint) /\ abapLint # ABAPLINT_DEFAULT
  /\ result' = Err("ConfigError", <<"cannot load configuration">>)
  /\ pc' = "returned"
  /\ UNCHANGED <<listVars,
                 abapLint, stateful, status, store, held, loop, locals, error,
                 calls, lateCalls, hist>>

\* lines 160-165: the next object becomes current and is expanded
Expand ==
  /\ pc = "expand"
  /\ oi <= Len(objects)
  /\ status' = [status EXCEPT !.currentObject = objects[oi]]
  /\ lateCalls' = IF drops > 0 THEN lateCalls + 1 ELSE lateCalls
  /\ \/ /\ \E l \in IncludeLists : includes' = l /\ seen' = seen + Len(l)
        /\ ii' = 1
        /\ pc' = "read"
        /\ UNCHANGED error
     \/ /\ Throw(Err("ExpandError", <<"expand failed">>))
        /\ UNCHANGED <<includes, ii, seen>>
  /\ UNCHANGED <<listVars,
                 abapLint, stateful, store, held, objects, options, oi, locals,
                 result, calls, report, summary, drops, entered, writes>>

\* line 160: the loop over the objects ends normally
LoopExit ==
  /\ pc = "expand"
  /\ oi > Len(objects)
  /\ pc' = "finally"
  /\ UNCHANGED <<listVars,
                 abapLint, stateful, status, store, held, loop, locals, error,
                 result, calls, lateCalls, hist>>

\* mutant: the object is not counted
ObjectDoneNotCounted ==
  /\ pc = "read"
  /\ ii > Len(includes)
  /\ oi' = oi + 1
  /\ pc' = "expand"
  /\ UNCHANGED <<listVars,
                 abapLint, stateful, status, store, held, objects, options,
                 includes, ii, locals, error, result, calls, lateCalls, hist>>

\* lines 166-167: every include of the object is done
ObjectDone ==
  /\ pc = "read"
  /\ ii > Len(includes)
  /\ status' = [status EXCEPT !.processedObjects = @ + 1]
  /\ oi' = oi + 1
  /\ pc' = "expand"
  /\ UNCHANGED <<listVars,
                 abapLint, stateful, store, held, objects, options, includes,
                 ii, locals, error, result, calls, lateCalls, hist>>

(* ---------------------------- processInclude -------------------------- *)
\* lines 128-133: the include becomes current and its source is read
Read ==
  /\ pc = "read"
  /\ ii <= Len(includes)
  /\ status' = [status EXCEPT !.currentInclude = Incl]
  /\ calls' = <<"getObjectSource">>
  /\ lateCalls' = IF drops > 0 THEN lateCalls + 1 ELSE lateCalls
  /\ \/ /\ source' = store[Incl]
        /\ pc' = "format"
        /\ UNCHANGED error
     \/ /\ Throw(Err("ReadError", <<"read failed">>))
        /\ UNCHANGED source
  /\ UNCHANGED <<listVars,
                 abapLint, stateful, store, held, loop, formatted, lock, active,
                 inactives, lockError, result, hist>>

\* lines 122-125, 135-138: the source is formatted and compared
Format ==
  /\ pc = "format"
  /\ Call("format")
  /\ \/ /\ formatted' = prettyPrinter(source)
        /\ pc' = IF unchanged(prettyPrinter(source), source)
                 THEN "inclEnd" ELSE "lock"
        /\ UNCHANGED error
     \/ /\ Throw(Err("FormatError", <<"format failed">>))
        /\ UNCHANGED formatted
  /\ UNCHANGED <<listVars,
                 abapLint, stateful, status, store, held, loop, source, lock,
                 active, inactives, lockError, result, hist>>

\* lines 46-57, 139-142: the lock is requested; a refusal is classified
TryLock ==
  /\ pc = "lock"
  /\ Call("lock")
  /\ \/ \E l \in AdtLocks :
          /\ lock' = l
          /\ held' = IF Truthy(l.LOCK_HANDLE) THEN held \cup {Incl} ELSE held
          /\ pc' = "write"
          /\ UNCHANGED <<error, lockError>>
     \/ \E e \in LockErrors :
          /\ lockError' = e
          /\ IF tryLockCatch(e) = "absent"
             THEN pc' = "inclEnd" /\ UNCHANGED error
             ELSE Throw(e)
          /\ UNCHANGED <<lock, held>>
  /\ UNCHANGED <<listVars,
                 abapLint, stateful, status, store, loop, source, formatted,
                 active, inactives, result, hist>>

\* mutant: the include is not counted
FinishIncludeNotCounted ==
  /\ pc = "inclEnd"
  /\ status' = [status EXCEPT !.currentInclude = Nothing]
  /\ ii' = ii + 1
  /\ pc' = "read"
  /\ source' = Nothing
  /\ formatted' = Nothing
  /\ lock' = NoLock
  /\ active' = NoResult
  /\ inactives' = <<>>
  /\ lockError' = NoError
  /\ calls' = <<>>
  /\ UNCHANGED <<listVars,
                 abapLint, stateful, store, held, objects, options, oi,
                 includes, error, result, lateCalls, hist>>

\* lines 145-147: the include is done
FinishInclude ==
  /\ pc = "inclEnd"
  /\ status' = [status EXCEPT !.processedIncludes = @ + 1,
                              !.currentInclude = Nothing]
  /\ ii' = ii + 1
  /\ pc' = "read"
  /\ source' = Nothing
  /\ formatted' = Nothing
  /\ lock' = NoLock
  /\ active' = NoResult
  /\ inactives' = <<>>
  /\ lockError' = NoError
  /\ calls' = <<>>
  /\ UNCHANGED <<listVars,
                 abapLint, stateful, store, held, objects, options, oi,
                 includes, error, result, lateCalls, hist>>

(* -------------------------------- write ------------------------------- *)
\* mutant: a dry run skips the validation of the transport
WriteBeginDryUnvalidated ==
  /\ pc = "write"
  /\ entered' = entered + 1
  /\ IF checkHandle(lock) # NoError
     THEN Throw(checkHandle(lock)) /\ calls' = Append(calls, "write")
     ELSE IF options.test
     THEN /\ calls' = Append(calls, "write")
          /\ pc' = "unLock"
          /\ UNCHANGED error
     ELSE /\ calls' = calls \o <<"write", "validateTransport">>
          /\ IF validateTransport(lock, options.transport) # NoError
             THEN Throw(validateTransport(lock, options.transport))
             ELSE /\ pc' = "setObjectSource"
                  /\ UNCHANGED error
  /\ UNCHANGED <<listVars,
                 abapLint, stateful, status, store, held, loop, locals, result,
                 lateCalls, report, summary, drops, seen, writes>>

\* lines 99-103: the handle is checked and the transport validated
WriteBegin ==
  /\ pc = "write"
  /\ entered' = entered + 1
  /\ IF checkHandle(lock) # NoError
     THEN Throw(checkHandle(lock)) /\ calls' = Append(calls, "write")
     ELSE /\ calls' = calls \o <<"write", "validateTransport">>
          /\ IF validateTransport(lock, options.transport) # NoError
             THEN Throw(validateTransport(lock, options.transport))
             ELSE /\ pc' = IF doWrite(options) THEN "setObjectSource" ELSE "unLock"
                  /\ UNCHANGED error
  /\ UNCHANGED <<listVars,
                 abapLint, stateful, status, store, held, loop, locals, result,
                 lateCalls, report, summary, drops, seen, writes>>

\* lines 103-109: the formatted text is written
SetObjectSource ==
  /\ pc = "setObjectSource"
  /\ Call("setObjectSource")
  /\ \/ /\ store' = [store EXCEPT ![Incl] = formatted]
        /\ writes' = Append(writes, Incl)
        /\ pc' = "unLock"
        /\ UNCHANGED error
     \/ /\ Throw(Err("WriteError", <<"write failed">>))
        /\ UNCHANGED <<store, writes>>
  /\ UNCHANGED <<listVars,
                 abapLint, stateful, status, held, loop, locals, result,
                 report, summary, drops, seen, entered>>

\* mutant: the unlock is left out
UnLockSkipped ==
  /\ pc = "unLock"
  /\ IF doWrite(options)
     THEN /\ pc' = "activate"
          /\ UNCHANGED status
     ELSE /\ status' = [status EXCEPT !.writtenIncludes = @ + 1]
          /\ pc' = "inclEnd"
  /\ UNCHANGED <<listVars,
                 abapLint, stateful, store, held, loop, locals, error, result,
                 calls, lateCalls, hist>>

\* lines 110-113, 118-119: the lock is released; a dry run ends here
UnLock ==
  /\ pc = "unLock"
  /\ Call("unLock")
  /\ \/ /\ held' = held \ {Incl}
        /\ IF doWrite(options)
           THEN /\ pc' = "activate"
                /\ UNCHANGED status
           ELSE /\ status' = [status EXCEPT !.writtenIncludes = @ + 1]
                /\ pc' = "inclEnd"
        /\ UNCHANGED error
     \/ /\ Throw(Err("UnlockError", <<"unlock failed">>))
        /\ UNCHANGED <<held, status>>
  /\ UNCHANGED <<listVars,
                 abapLint, stateful, store, loop, locals, result, hist>>

(* ------------------------------- activate ----------------------------- *)
\* lines 77-78: the main programs of a PROG/I include are looked up
MainPrograms ==
  /\ pc = "activate"
  /\ IncludeType(Incl) = "PROG/I"
  /\ Call("mainPrograms")
  /\ \/ /\ pc' = "activateMain"
        /\ UNCHANGED error
     \/ \* an empty list: main?.[0] is undefined, reading its uri raises
        Throw(Err("TypeError", <<"cannot read property of undefined">>))
     \/ Throw(Err("MainProgramsError", <<"lookup failed">>))
  /\ UNCHANGED <<listVars,
                 abapLint, stateful, status, store, held, loop, locals, result,
                 hist>>

\* lines 79-83: a PROG/I include is activated in its main program
ActivateMain ==
  /\ pc = "activateMain"
  /\ Call("activate")
  /\ \/ /\ \E r \in ActivationResults : active' = r
        /\ pc' = "activated"
        /\ UNCHANGED error
     \/ /\ Throw(Err("ActivateError", <<"activate failed">>))
        /\ UNCHANGED active
  /\ UNCHANGED <<listVars,
                 abapLint, stateful, status, store, held, loop, source,
                 formatted, lock, inactives, lockError, result, hist>>

\* lines 85-90: any other include is activated directly
Activate ==
  /\ pc = "activate"
  /\ IncludeType(Incl) # "PROG/I"
  /\ Call("activate")
  /\ \/ \E r \in ActivationResults :
          /\ active' = r
          /\ IF hasInactive(r)
             THEN inactives' = inactiveObjectsInResults(r) /\ pc' = "reactivate"
             ELSE UNCHANGED inactives /\ pc' = "activated"
          /\ UNCHANGED error
     \/ /\ Throw(Err("ActivateError", <<"activate failed">>))
        /\ UNCHANGED <<active, inactives>>
  /\ UNCHANGED <<listVars,
                 abapLint, stateful, status, store, held, loop, source,
                 formatted, lock, lockError, result, hist>>

\* line 88: the follow-up activation of the inactive objects
Reactivate ==
  /\ pc = "reactivate"
  /\ Call("activateInactives")
  /\ \/ /\ \E r \in ActivationResults : active' = r
        /\ pc' = "activated"
        /\ UNCHANGED error
     \/ /\ Throw(Err("ActivateError", <<"activate failed">>))
        /\ UNCHANGED active
  /\ UNCHANGED <<listVars,
                 abapLint, stateful, status, store, held, loop, source,
                 formatted, lock, inactives, lockError, result, hist>>

\* mutant: the written include is not counted
WriteEndNotCounted ==
  /\ pc = "activated"
  /\ IF activationError(active) # NoError
     THEN Throw(activationError(active))
     ELSE /\ pc' = "inclEnd"
          /\ UNCHANGED error
  /\ UNCHANGED <<listVars,
                 abapLint, stateful, status, store, held, loop, locals, result,
                 calls, lateCalls, hist>>

\* lines 114-119: the final activation result is checked
WriteEnd ==
  /\ pc = "activated"
  /\ IF activationError(active) # NoError
     THEN Throw(activationError(active)) /\ UNCHANGED status
     ELSE /\ status' = [status EXCEPT !.writtenIncludes = @ + 1]
          /\ pc' = "inclEnd"
          /\ UNCHANGED error
  /\ UNCHANGED <<listVars,
                 abapLint, stateful, store, held, loop, locals, result, calls,
                 lateCalls, hist>>

(* --------------------------- catch and finally ------------------------ *)
\* mutant: the error leaves processObjects without the cleanup
CatchWithoutFinally ==
  /\ pc = "catch"
  /\ report' = [logged |-> TRUE, object |-> status.currentObject,
                include |-> status.currentInclude]
  /\ result' = error
  /\ pc' = "returned"
  /\ UNCHANGED <<listVars,
                 abapLint, stateful, status, store, held, loop, locals, error,
                 calls, lateCalls, summary, drops, seen, entered, writes>>

\* mutant: the error is logged and the loop goes on with the next include
CatchAndGoOn ==
  /\ pc = "catch"
  /\ report' = [logged |-> TRUE, object |-> status.currentObject,
                include |-> status.currentInclude]
  /\ ii' = ii + 1
  /\ pc' = "read"
  /\ UNCHANGED <<listVars,
                 abapLint, stateful, status, store, held, objects, options,
                 oi, includes, locals, error, result, calls, lateCalls,
                 summary, drops, seen, entered, writes>>

\* lines 169-175: the object and the include in flight are logged
Catch ==
  /\ pc = "catch"
  /\ report' = [logged |-> TRUE, object |-> status.currentObject,
                include |-> status.currentInclude]
  /\ pc' = "finally"
  /\ UNCHANGED <<listVars,
                 abapLint, stateful, status, store, held, loop, locals, error,
                 result, calls, lateCalls, summary, drops, seen, entered,
                 writes>>

\* lines 150-153: the summary stats() logs
stats(objnum) ==
  [objects |-> objnum, processedObjects |-> status.processedObjects,
   processedIncludes |-> status.processedIncludes,
   writtenIncludes |-> status.writtenIncludes]

\* lines 176-180: the summary, the session reset and dropSession
Finally ==
  /\ pc = "finally"
  /\ summary' = Append(summary, stats(Len(objects)))
  /\ stateful' = "stateless"
  /\ drops' = drops + 1
  /\ \/ /\ held' = {}
        /\ result' = error
     \/ /\ result' = Err("DropSessionError", <<"dropSession failed">>)
        /\ UNCHANGED held
  /\ pc' = "returned"
  /\ UNCHANGED <<listVars,
                 abapLint, status, store, loop, locals, error, calls, lateCalls,
                 report, seen, entered, writes>>

Next ==
  \/ ProcessObjects \/ LoadConfigFails
  \/ Expand \/ LoopExit \/ ObjectDone
  \/ Read \/ Format \/ TryLock \/ FinishInclude
  \/ WriteBegin \/ SetObjectSource \/ UnLock
  \/ MainPrograms \/ ActivateMain \/ Activate \/ Reactivate \/ WriteEnd
  \/ Catch \/ Finally

Spec == Init /\ [][Next]_vars

(* ------------------------------ Main.list ----------------------------- *)
\* lines 183-214: the usage tests and the manifest
List ==
  /\ listPc = "idle"
  /\ \E type \in ListTypes, name \in ListNames, file \in ListFiles :
       /\ listArgs' = [type |-> type, name |-> name, file |-> file]
       /\ IF usageBoth(type, name, file) # NoListError
          THEN /\ listError' = usageBoth(type, name, file)
               /\ listPc' = "returned"
               /\ UNCHANGED <<manifest, listed>>
          ELSE IF Truthy(file)
          THEN /\ listPc' = "returned"
               /\ \/ \E m \in Manifests :
                       /\ manifest' = m
                       /\ listError' = manifestError(m, file)
                       /\ listed' = IF manifestError(m, file) = NoListError
                                    THEN manifestRows(m) ELSE <<>>
                  \/ /\ listError' = ListErr("ENOENT", NoLine, Undefined)
                     /\ UNCHANGED <<manifest, listed>>
          ELSE IF usageMissing(type, name) # NoListError
          THEN /\ listError' = usageMissing(type, name)
               /\ listPc' = "returned"
               /\ UNCHANGED <<manifest, listed>>
          ELSE /\ listPc' = "query"
               /\ UNCHANGED <<manifest, listed, listError>>
  /\ UNCHANGED <<queries, mainVars>>

\* lines 216-224: the discovery query
ListQuery ==
  /\ listPc = "query"
  /\ queries' = queries + 1
  /\ \/ \E r \in DiscoveryResults : listed' = r /\ UNCHANGED listError
     \/ /\ listError' = ListErr("query failed", NoLine, Undefined)
        /\ UNCHANGED listed
  /\ listPc' = "returned"
  /\ UNCHANGED <<listArgs, manifest, mainVars>>

NextList == List \/ ListQuery

SpecList == Init /\ [][NextList]_vars

(* ============================== claims ================================ *)
\* how often op occurs in a call history
RECURSIVE Count(_, _)
Count(op, h) ==
  IF h = <<>> THEN 0
  ELSE (IF Head(h) = op THEN 1 ELSE 0) + Count(op, Tail(h))

Made(op) == \E i \in 1..Len(calls) : calls[i] = op
InWrites(n) == \E i \in 1..Len(writes) : writes[i] = n
ActivationOps == {"mainPrograms", "activate", "activateInactives"}
MadeActivation == \E i \in 1..Len(calls) : calls[i] \in ActivationOps

\* C1: every include for which write() is entered with an acquired lock gets
\* exactly one unLock call, whether write() completes or the setObjectSource
\* step or the activation step fails; the unLock has been made by the time
\* the error leaves processObjects.
C1_NoLockLeak ==
  ( /\ Made("write")
    /\ Truthy(lock.LOCK_HANDLE)
    /\ pc \in {"inclEnd", "returned"}
    /\ \/ error = NoError
       \/ error.type = "WriteError"
       \/ MadeActivation )
  => Count("unLock", calls) = 1

\* C2: an include whose formatted text equals the text read sees the read and
\* the format only (no lock, setObjectSource, unLock or activate call) and
\* leaves writtenIncludes, the store and the locks unchanged; an include that
\* was written earlier and whose stored text is stable under the formatter is
\* read back unchanged, so processing it again makes none of these calls.
C2_State ==
  /\ (formatted # Nothing /\ formatted = source)
       => calls = <<"getObjectSource", "format">> /\ pc = "inclEnd"
  /\ ( /\ source # Nothing
       /\ InWrites(Incl)
       /\ ~Made("setObjectSource")
       /\ prettyPrinter(store[Incl]) = store[Incl] )
       => /\ source = store[Incl]
          /\ ~Made("lock") /\ ~Made("unLock") /\ ~MadeActivation
C2_Step ==
  /\ (pc = "format" /\ pc' = "inclEnd")
       => status' = status /\ store' = store /\ held' = held
  /\ (pc = "inclEnd" /\ formatted = source)
       => /\ status'.writtenIncludes = status.writtenIncludes
          /\ store' = store /\ held' = held
\* C2: an unchanged include makes no lock, write, unlock or activate call,
\* in every state and across every step
C2_Idempotent == [](C2_State) /\ [][C2_Step]_vars
\* an include written earlier in the run is processed again and is unchanged
C2_Witness ==
  /\ pc = "inclEnd"
  /\ InWrites(Incl)
  /\ formatted = source
  /\ calls = <<"getObjectSource", "format">>

\* C3: a refused lock yields "absent" (no exception: the include is skipped,
\* writtenIncludes stays, processedIncludes is incremented and the run goes
\* on with the next include) exactly when its type is
\* ExceptionResourceNoAccess and its message does not contain "locked" in any
\* case; any other refusal propagates and aborts the run.
C3_LockedMessages ==
  { <<"i","s"," ","L","o","c","k","e","d","!">>, <<"l","o","c","k","e","d">> }
C3_State ==
  lockError # NoError =>
    IF lockError.type = "ExceptionResourceNoAccess"
       /\ lockError.message \notin C3_LockedMessages
    THEN pc = "inclEnd" /\ error = NoError /\ lock = NoLock
    ELSE /\ pc \in {"catch", "finally", "returned"}
         /\ error = lockError
         /\ pc = "returned" => result # NoError
C3_Step ==
  /\ pc = "lock" => status' = status
  /\ (pc = "inclEnd" /\ lockError # NoError)
       => /\ status'.processedIncludes = status.processedIncludes + 1
          /\ status'.writtenIncludes = status.writtenIncludes
          /\ ii' = ii + 1
          /\ pc' = "read"
\* C3: a refusal is a skip exactly for ExceptionResourceNoAccess without
\* "locked" in its message, in every state and across every step
C3_SkipClassification == [](C3_State) /\ [][C3_Step]_vars
\* a refusal was classified as a skip
C3_Witness ==
  /\ pc = "inclEnd"
  /\ lockError.type = "ExceptionResourceNoAccess"
  /\ lockError.message = <<"l","o","c","k"," ","e","d">>

\* C4: validateTransport raises exactly for a local lock with an id supplied,
\* a non-local lock with no id supplied, and a non-local lock that carries an
\* id different from the supplied one; it returns normally otherwise.
C4_ValidationErrors ==
  { CLIError(<<"is local, can't use transport">>),
    CLIError(<<"requires a transport">>),
    CLIError(<<"locked in transport, can't use">>) }
C4_ValidationMatrix ==
  Made("validateTransport") =>
    LET t == options.transport
        supplied == t \in TransportIds
        local == lock.IS_LOCAL
        hasId == lock.CORRNR \in TransportIds
    IN  /\ (local /\ supplied)
          => error = CLIError(<<"is local, can't use transport">>)
        /\ (~local /\ ~supplied)
          => error = CLIError(<<"requires a transport">>)
        /\ (~local /\ supplied /\ hasId /\ lock.CORRNR # t)
          => error = CLIError(<<"locked in transport, can't use">>)
        /\ ( \/ (local /\ ~supplied)
             \/ (~local /\ supplied /\ ~hasId)
             \/ (~local /\ supplied /\ lock.CORRNR = t) )
          => error \notin C4_ValidationErrors
\* the lock carries an id other than the supplied one and validation raised
C4_Witness ==
  /\ Made("validateTransport")
  /\ ~lock.IS_LOCAL
  /\ lock.CORRNR = "T2"
  /\ options.transport = "T1"
  /\ pc = "catch"
  /\ error = CLIError(<<"locked in transport, can't use">>)

\* C5: while the loop of processObjects runs the session is stateful and not
\* dropped; once processObjects has returned from the loop, normally or with
\* an error, the summary has been logged once, the session is stateless and
\* dropSession has been called exactly once; no remote call follows it.
C5_LoopPcs ==
  {"expand", "read", "format", "lock", "write", "setObjectSource", "unLock",
   "activate", "activateMain", "reactivate", "activated", "inclEnd", "catch",
   "finally"}
C5_SessionCleanup ==
  /\ pc \in C5_LoopPcs
       => stateful = "stateful" /\ drops = 0 /\ summary = <<>>
  /\ (pc = "returned" /\ result.type # "ConfigError")
       => stateful = "stateless" /\ drops = 1 /\ Len(summary) = 1
  /\ lateCalls = 0
\* a step of the loop raised and the cleanup has run
C5_Witness ==
  /\ pc = "returned"
  /\ error.type = "UnlockError"
  /\ stateful = "stateless"
  /\ drops = 1
  /\ Len(summary) = 1

\* C6: when a step of the loop raises, the catch clause logs, before the
\* cleanup, the object in flight and - exactly when the failure happened
\* inside an include's pipeline - that include, and the caller of
\* processObjects sees the original error.
C6_FailureReport ==
  /\ (pc = "finally" /\ error # NoError) => report.logged /\ drops = 0
  /\ (pc = "returned" /\ error # NoError)
       => /\ report.logged
          /\ report.object = objects[oi]
          /\ report.include
               = (IF error.type = "ExpandError" THEN Nothing ELSE Incl)
          /\ result = error

\* C7: in a dry run (options.test) no setObjectSource and no activation call
\* is ever made, while an include whose text differs, whose lock is acquired
\* and passes validation still sees lock and unLock once each.
C7_DryRun ==
  options.test =>
    /\ ~Made("setObjectSource") /\ ~MadeActivation /\ writes = <<>>
    /\ ( /\ Made("validateTransport")
         /\ error \notin C4_ValidationErrors
         /\ pc # "unLock" )
         => calls = <<"getObjectSource", "format", "lock", "write",
                      "validateTransport", "unLock">>
\* a dry run has locked, validated and unlocked an include
C7_Witness ==
  /\ options.test
  /\ pc = "inclEnd"
  /\ formatted # source
  /\ Count("lock", calls) = 1
  /\ Count("unLock", calls) = 1

\* C8: in both modes validateTransport is evaluated before any
\* setObjectSource (and unLock) call for the include; when it raises, no
\* setObjectSource and no activation call is made for the include and the
\* run ends with an error.
C8_ValidationFirst ==
  /\ (Made("write") /\ Truthy(lock.LOCK_HANDLE)) => Made("validateTransport")
  /\ \A j \in 1..Len(calls) :
       calls[j] \in {"setObjectSource", "unLock"}
         => /\ \E i \in 1..(j - 1) : calls[i] = "validateTransport"
            /\ error \notin C4_ValidationErrors
  /\ error \in C4_ValidationErrors
       => /\ ~Made("setObjectSource") /\ ~MadeActivation
          /\ pc \in {"catch", "finally", "returned"}
          /\ pc = "returned" => result # NoError
\* validation raised in a dry run and processObjects returned the error
C8_Witness ==
  /\ options.test
  /\ error \in C4_ValidationErrors
  /\ pc = "returned"
  /\ result = error

\* C9: for an include that is not PROG/I, a first activation result with
\* inactive records is followed by exactly one more activate call, made for
\* the objects of those records, whose result is final whatever it reports;
\* a first result without inactive records is final; at most two activate
\* calls are made for an include.
C9_State ==
  /\ Count("activate", calls) <= 1
  /\ Count("activateInactives", calls) <= 1
  /\ Made("activateInactives")
       => /\ IncludeType(Incl) # "PROG/I"
          /\ Count("activate", calls) = 1
  /\ pc = "reactivate"
       => /\ Len(active.inactive) > 0
          /\ {inactives[i] : i \in 1..Len(inactives)}
               = {active.inactive[i].object : i \in 1..Len(active.inactive)}
                   \ {Nothing}
          /\ Len(inactives) = Cardinality(
               {i \in 1..Len(active.inactive) :
                  active.inactive[i].object # Nothing})
  /\ (pc = "activated" /\ IncludeType(Incl) # "PROG/I"
      /\ ~Made("activateInactives"))
       => active.inactive = <<>>
C9_Step ==
  /\ pc = "reactivate"
       => /\ pc' \in {"activated", "catch"}
          /\ calls' = Append(calls, "activateInactives")
          /\ inactives' = inactives
  /\ pc = "activated"
       => /\ calls' = calls
          /\ pc' = (IF active.success = FALSE THEN "catch" ELSE "inclEnd")
\* C9: exactly one follow-up activation for the inactive objects, and none
\* otherwise, in every state and across every step
C9_ActivationRetry == [](C9_State) /\ [][C9_Step]_vars
\* the follow-up activation was made and reports inactive objects again
C9_Witness ==
  /\ pc = "activated"
  /\ Made("activateInactives")
  /\ inactives # <<>>
  /\ Len(active.inactive) > 0

\* C10: in a run that is not a dry run, an include whose text differs and
\* whose lock is acquired sees read, format, lock, validate, write, unlock,
\* activate in this order, an unchanged include sees read and format only,
\* and after a successful run processedObjects is the number of objects,
\* processedIncludes the number of includes and writtenIncludes the number
\* of includes that went through write.
C10_WritePrefix ==
  <<"getObjectSource", "format", "lock", "write", "validateTransport",
    "setObjectSource", "unLock">>
C10_OrderAndCounts ==
  /\ (~options.test /\ pc = "inclEnd")
       => IF formatted = source
          THEN calls = <<"getObjectSource", "format">>
          ELSE IF lock # NoLock
          THEN calls \in { C10_WritePrefix \o <<"mainPrograms", "activate">>,
                           C10_WritePrefix \o <<"activate">>,
                           C10_WritePrefix \o <<"activate", "activateInactives">> }
          ELSE calls = <<"getObjectSource", "format", "lock">>
  /\ (~options.test /\ pc = "returned" /\ result = NoError)
       => /\ status.processedObjects = Len(objects)
          /\ status.processedIncludes = seen
          /\ status.writtenIncludes = entered
          /\ status.writtenIncludes = Len(writes)
\* one object, two includes, one of them written: the run has succeeded
C10_Witness ==
  /\ ~options.test
  /\ pc = "returned"
  /\ result = NoError
  /\ status.processedObjects = 1
  /\ status.processedIncludes = 2
  /\ status.writtenIncludes = 1
  /\ Len(summary) = 1
  /\ summary[1].writtenIncludes = 1

\* the lines of the manifest read that are neither empty nor a first line
\* without a slash, by their position in the file
ManifestRead == listPc = "returned" /\ manifest # <<>>
DataLines ==
  {k \in 1..Len(manifest) :
     manifest[k] # <<>> /\ ~(k = 1 /\ ~MatchSlash(manifest[1]))}
DataLine(j) == CHOOSE k \in DataLines : Cardinality({x \in DataLines : x <= k}) = j
BadRow(l) ==
  ~supportedType(descriptor(split3(l)).type) \/ descriptor(split3(l)).url = <<>>

\* a blank line: empty, or blanks only
IsBlank(l) == \A k \in 1..Len(l) : l[k] = Blank
NonBlankLines ==
  {k \in 1..Len(manifest) :
     ~IsBlank(manifest[k]) /\ ~(k = 1 /\ ~MatchSlash(manifest[1]))}

\* C11 as stated: the first line is dropped as a header if and only if it
\* holds no "/", blank lines (empty or blanks only) are skipped, and list
\* fails only for a row among the other lines.
C11_BlankLinesSkipped ==
  ManifestRead =>
    /\ listError = NoListError => Len(listed) = Cardinality(NonBlankLines)
    /\ listError # NoListError => \E k \in NonBlankLines : BadRow(manifest[k])

\* C11, amended: when list reads a manifest, the first line is dropped as a
\* header if and only if it holds no "/", empty lines are dropped (a line of
\* blanks only is not: it is a row without a type), and every other line
\* gives one descriptor {type, name, url}, in the order of the file; a first
\* line that holds a "/" is a row, and list fails when its type is not
\* supported.
C11_ManifestHeader ==
  ManifestRead =>
    /\ listError = NoListError =>
         /\ Len(listed) = Cardinality(DataLines)
         /\ \A j \in 1..Len(listed) :
              listed[j] = descriptor(split3(manifest[DataLine(j)]))
    /\ listError # NoListError =>
         /\ listed = <<>>
         /\ \E k \in DataLines : BadRow(manifest[k])
    /\ ( /\ MatchSlash(manifest[1])
         /\ ~supportedType(descriptor(split3(manifest[1])).type) )
       => listError = rowError(descriptor(split3(manifest[1])), 0, listArgs.file)
\* a header, an empty line and a row: one descriptor comes back
C11_Witness ==
  /\ listPc = "returned"
  /\ manifest = <<HeaderLine, <<>>, GoodRow>>
  /\ listError = NoListError
  /\ listed = <<[type |-> <<"PROG", Slash, "P">>, name |-> <<"ZPROG">>,
                 url |-> <<Slash, "zprog">>]>>

\* C12: list raises a usage error when a manifest comes with a name or a
\* type, and when there is no manifest and the name or the type is missing;
\* in both cases no manifest is read and the discovery query is not called.
C12_ListExclusive ==
  listPc # "idle" =>
    /\ (Truthy(listArgs.file) /\ (Truthy(listArgs.name) \/ Truthy(listArgs.type)))
       => /\ listPc = "returned"
          /\ listError.message =
               "Can't specify an object name or type and a list file"
          /\ queries = 0
          /\ manifest = <<>>
          /\ listed = <<>>
    /\ (~Truthy(listArgs.file) /\ (~Truthy(listArgs.name) \/ ~Truthy(listArgs.type)))
       => /\ listPc = "returned"
          /\ listError.message = "Object type and name required"
          /\ queries = 0
          /\ listed = <<>>
\* a manifest and a type without a name
C12_Witness ==
  /\ listPc = "returned"
  /\ Truthy(listArgs.file)
  /\ Truthy(listArgs.type)
  /\ ~Truthy(listArgs.name)
  /\ listError.message = "Can't specify an object name or type and a list file"
  /\ queries = 0

\* the line of the file, counted from 1, of the first row list rejects
OffendingLine == CHOOSE k \in DataLines :
  BadRow(manifest[k]) /\ \A j \in DataLines : BadRow(manifest[j]) => k <= j

\* C18: when a row of the manifest has an unsupported type or no url, the
\* error list raises names the file and the line of that row in the file
\* (counted from 1 or from 0), whichever of the two errors it is and whether
\* or not a header or empty lines come before the row.
C18_ErrorCitesLine ==
  (ManifestRead /\ listError # NoListError) =>
    /\ listError.file = listArgs.file
    /\ listError.line \in {OffendingLine - 1, OffendingLine}

\* how many of the three tests of validateTransport hold for the lock and the
\* transport of the include in flight
FatalTests ==
  {t \in {"local", "required", "other"} :
     \/ t = "local" /\ isLocalWithTransport(lock, options.transport)
     \/ t = "required" /\ requiresTransport(lock, options.transport)
     \/ t = "other" /\ lockedInOther(lock, options.transport)}

\* C13 as stated: whatever the lock and the transport validateTransport is
\* given, at most one of its three tests holds.
C13_MutuallyExclusive ==
  Made("validateTransport") => Cardinality(FatalTests) <= 1

\* C13, amended: the first test excludes the other two; the second and the
\* third hold together exactly for a lock that is not local and has a
\* transport when none is supplied, and then the error of the second test,
\* the first of the two in the code, is the one raised.
C13_FirstMatch ==
  Made("validateTransport") =>
    /\ "local" \in FatalTests => FatalTests = {"local"}
    /\ {"required", "other"} \subseteq FatalTests
         <=> (~lock.IS_LOCAL /\ Truthy(lock.CORRNR) /\ ~Truthy(options.transport))
    /\ {"required", "other"} \subseteq FatalTests
         => error = CLIError(<<"requires a transport">>)
\* a lock in transport T1, no transport supplied
C13_Witness ==
  /\ Made("validateTransport")
  /\ ~lock.IS_LOCAL
  /\ lock.CORRNR = "T1"
  /\ options.transport = Undefined
  /\ FatalTests = {"required", "other"}
  /\ error = CLIError(<<"requires a transport">>)
  /\ pc = "returned"

\* the positions inside processInclude, and those of an error on its way out
PipelinePcs ==
  {"format", "lock", "write", "setObjectSource", "unLock", "activate",
   "activateMain", "reactivate", "activated", "inclEnd"}
UnwindPcs == {"catch", "finally"}

\* C14: status.currentInclude is set only while the pipeline of that include
\* runs (or its error is on the way out of processObjects); it is undefined
\* between two includes, between two objects, before the call and after
\* processObjects has returned, with or without an error.
C14_CurrentInclude ==
  status.currentInclude # Nothing
    => /\ pc \in PipelinePcs \cup UnwindPcs
       /\ status.currentInclude = Incl

\* C15 as stated, the order of the counters: in every state writtenIncludes
\* <= processedIncludes <= the includes seen so far.
C15_CounterOrder ==
  /\ status.writtenIncludes <= status.processedIncludes
  /\ status.processedIncludes <= seen

\* C15, amended: writtenIncludes is counted at the end of write(), before
\* processInclude counts the include, so it is at most processedIncludes + 1
\* while the pipeline of an include runs and at most processedIncludes at
\* every other point; processedIncludes is at most the includes seen so far;
\* no counter ever decreases.
C15_State ==
  /\ status.writtenIncludes <= status.processedIncludes + 1
  /\ pc # "inclEnd" => status.writtenIncludes <= status.processedIncludes
  /\ status.processedIncludes <= seen
  /\ pc \in PipelinePcs => status.processedIncludes < seen
C15_Step ==
  /\ status'.writtenIncludes >= status.writtenIncludes
  /\ status'.processedIncludes >= status.processedIncludes
  /\ status'.processedObjects >= status.processedObjects
  /\ seen' >= seen
\* C15, amended: the order of the counters in every state, and no counter
\* decreases across any step
C15_Counters == [](C15_State) /\ [][C15_Step]_vars
\* write() has counted the include, processInclude has not yet
C15_Witness ==
  /\ pc = "inclEnd"
  /\ Made("setObjectSource")
  /\ status.writtenIncludes = 1
  /\ status.processedIncludes = 0

\* the positions after a failure
AbortPcs == {"catch", "finally", "returned"}

\* C16: when a step of an include's pipeline or the expansion of an object
\* fails, the failing step counts neither the include nor the object, and
\* from then on no remote call is made, no text is written and no counter
\* or loop index moves: control goes through the catch and finally clauses
\* and out of processObjects.
C16_State ==
  (pc \in AbortPcs /\ error # NoError) =>
    /\ status.processedObjects = oi - 1
    /\ status.processedIncludes = seen - Len(includes) + (ii - 1)
    /\ oi <= Len(objects)
    /\ (pc = "returned" => result # NoError)
C16_Step ==
  /\ (pc' = "catch" /\ pc # "catch") =>
       /\ status'.processedIncludes = status.processedIncludes
       /\ status'.processedObjects = status.processedObjects
       /\ status'.writtenIncludes = status.writtenIncludes
       /\ oi' = oi
  /\ pc = "catch" =>
       /\ pc' = "finally"
       /\ calls' = calls /\ status' = status /\ store' = store
       /\ held' = held /\ oi' = oi /\ ii' = ii /\ writes' = writes
  /\ (pc = "finally" /\ error # NoError) =>
       /\ pc' = "returned"
       /\ calls' = calls /\ status' = status /\ store' = store
       /\ held' \subseteq held /\ oi' = oi /\ ii' = ii /\ writes' = writes
  /\ pc # "returned"
\* C16: a failure counts nothing and is followed by no call, in every state
\* and across every step
C16_AbortOnFailure == [](C16_State) /\ [][C16_Step]_vars
\* the second include of the first of two objects failed after the first
\* include was written
C16_Witness ==
  /\ pc = "returned"
  /\ error # NoError
  /\ Len(objects) = 2
  /\ oi = 1
  /\ Len(includes) = 2
  /\ ii = 2
  /\ status.processedIncludes = 1
  /\ status.writtenIncludes = 1
  /\ status.processedObjects = 0
  /\ calls # <<>>

\* C17: in a run that is not a dry run, when the last activation result of
\* an include has success = false, write() raises an error whose message is
\* the shortText of the first message of the result, or "Failed to activate"
\* when the result has no message; writtenIncludes is not incremented and the
\* run ends with that include neither written nor processed.
C17_State ==
  (pc \in AbortPcs /\ active.success = FALSE /\ error.type = "CLIError") =>
    /\ ~options.test
    /\ error = CLIError(IF active.messages # <<>>
                        THEN active.messages[1].shortText
                        ELSE <<"Failed to activate">>)
    /\ status.writtenIncludes = entered - 1
    /\ status.processedIncludes < seen
    /\ InWrites(Incl)
    /\ (pc = "returned" => result # NoError)
C17_Step ==
  (pc = "activated" /\ active.success = FALSE) =>
    /\ pc' = "catch"
    /\ error' = CLIError(IF active.messages # <<>>
                         THEN active.messages[1].shortText
                         ELSE <<"Failed to activate">>)
    /\ status' = status
\* C17: a failed activation raises its message and counts nothing, in every
\* state and across every step
C17_ActivationFatal == [](C17_State) /\ [][C17_Step]_vars
\* the activation failed with a message; the run has ended with its text
C17_Witness ==
  /\ pc = "returned"
  /\ ~options.test
  /\ active.success = FALSE
  /\ active.messages # <<>>
  /\ result = CLIError(ShortText)
  /\ status.writtenIncludes = 0
  /\ Len(writes) = 1

\* C19: at every point at most one lock is held, and it is the lock of the
\* include in flight; a lock is requested only for an include whose formatted
\* text differs from its source; only the lock step acquires a lock, and no
\* lock is held when the pipeline of an include starts or between objects.
C19_State ==
  /\ Cardinality(held) <= 1
  /\ pc \in {"idle", "expand", "read"} => held = {}
  /\ held # {} => (pc \in PipelinePcs \cup AbortPcs /\ held = {Incl})
  /\ Made("lock") => (formatted # Nothing /\ formatted # source)
C19_Step ==
  /\ pc = "lock" => held' \subseteq held \cup {Incl}
  /\ pc # "lock" => held' \subseteq held
  /\ pc = "read" => (~Made("lock"))'
\* C19: at most one lock, that of the include in flight, in every state and
\* across every step
C19_LockScope == [](C19_State) /\ [][C19_Step]_vars
\* the first include was written and its lock released; the lock of the
\* second is the only one held
C19_Witness ==
  /\ pc = "setObjectSource"
  /\ ii = 2
  /\ includes[1] # includes[2]
  /\ InWrites(includes[1])
  /\ held = {includes[2]}

\* C20 as stated: in a run that is not a dry run, whenever no pipeline of an
\* include is running (between includes, between objects and after
\* processObjects has returned, with or without an error), writtenIncludes is
\* the number of setObjectSource calls that succeeded.
C20_WrittenIsWrites ==
  (~options.test /\ pc \in {"read", "expand", "returned"})
    => status.writtenIncludes = Len(writes)

\* C20, amended: in a run that is not a dry run, whenever no pipeline of an
\* include is running, writtenIncludes is the number of successful
\* setObjectSource calls as long as no error was raised; when processObjects
\* has ended with the error of an unlock or an activation that failed after
\* the write, it is one less, the include in flight being written but not
\* counted.
C20_State ==
  (~options.test /\ pc \in {"read", "expand", "returned"}) =>
    /\ error = NoError => status.writtenIncludes = Len(writes)
    /\ status.writtenIncludes <= Len(writes)
    /\ Len(writes) <= status.writtenIncludes + 1
    /\ Len(writes) = status.writtenIncludes + 1
         <=> ( /\ pc = "returned"
               /\ Made("setObjectSource")
               /\ error.type \in {"UnlockError", "MainProgramsError",
                                  "TypeError", "ActivateError", "CLIError"}
               /\ writes[Len(writes)] = Incl )
C20_Step ==
  status'.writtenIncludes # status.writtenIncludes
    => /\ status'.writtenIncludes = status.writtenIncludes + 1
       /\ Made("unLock")'
       /\ ~options.test => (Made("setObjectSource") /\ MadeActivation)
\* C20, amended: writtenIncludes against the successful writes, in every
\* state and across every step
C20_WrittenCount == [](C20_State) /\ [][C20_Step]_vars
\* the text was written, the unlock failed: one write, none counted
C20_Witness ==
  /\ ~options.test
  /\ pc = "returned"
  /\ error.type = "UnlockError"
  /\ Len(writes) = 1
  /\ status.writtenIncludes = 0
  /\ Len(summary) = 1
  /\ summary[1].writtenIncludes = 0

====
